---------------------------- MODULE Spec2Model ----------------------------
(***************************************************************************)
(* tf-iam-scanner: the Configuration Extractor (parser.go), the Policy     *)
(* Synthesizer and the Output Encoder (policy.go), as a state machine.     *)
(*                                                                         *)
(* Go strings that the code takes apart (resource types, action            *)
(* identifiers, file names, file contents) are tuples of one-character     *)
(* strings, so that prefix, substring, split and byte-wise comparison are  *)
(* computed as the Go library computes them.  Strings that the code only   *)
(* passes along (ARN patterns, backend settings, rendered text) are TLA+   *)
(* strings.                                                                *)
(***************************************************************************)
EXTENDS Naturals, Sequences, FiniteSets, TLC

VARIABLES
    permissionsDB,  \* the package variable permissionsDB (parser.go:46)
    parse,          \* the call of parseTerraformFiles: pc (idle, walking, parsed,
                    \* failed), todo (the entries filepath.Walk has still to
                    \* visit), result (the *ParseResult) and err
    gen,            \* the last call of generateIAMPolicy: its arguments, its
                    \* "actions" map (work), its statements, its text and error
    hist            \* history of the walk under way, kept to state properties

vars == <<permissionsDB, parse, gen, hist>>

---------------------------------------------------------------------------
(* Bytes.  Go compares strings byte-wise; the printable ASCII characters   *)
(* are listed in code order, and Ord gives each its byte value.            *)

Range(s) == {s[i] : i \in 1..Len(s)}

\* The byte value of each character: the tab and the printable ASCII
\* characters (code 96, the backquote, is not used).
Ord ==
    ("\t" :> 9) @@ (" " :> 32) @@ ("!" :> 33) @@ ("\"" :> 34) @@ ("#" :> 35)
 @@ ("$" :> 36) @@ ("%" :> 37) @@ ("&" :> 38) @@ ("'" :> 39) @@ ("(" :> 40)
 @@ (")" :> 41) @@ ("*" :> 42) @@ ("+" :> 43) @@ ("," :> 44) @@ ("-" :> 45)
 @@ ("." :> 46) @@ ("/" :> 47) @@ ("0" :> 48) @@ ("1" :> 49) @@ ("2" :> 50)
 @@ ("3" :> 51) @@ ("4" :> 52) @@ ("5" :> 53) @@ ("6" :> 54) @@ ("7" :> 55)
 @@ ("8" :> 56) @@ ("9" :> 57) @@ (":" :> 58) @@ (";" :> 59) @@ ("<" :> 60)
 @@ ("=" :> 61) @@ (">" :> 62) @@ ("?" :> 63) @@ ("@" :> 64) @@ ("A" :> 65)
 @@ ("B" :> 66) @@ ("C" :> 67) @@ ("D" :> 68) @@ ("E" :> 69) @@ ("F" :> 70)
 @@ ("G" :> 71) @@ ("H" :> 72) @@ ("I" :> 73) @@ ("J" :> 74) @@ ("K" :> 75)
 @@ ("L" :> 76) @@ ("M" :> 77) @@ ("N" :> 78) @@ ("O" :> 79) @@ ("P" :> 80)
 @@ ("Q" :> 81) @@ ("R" :> 82) @@ ("S" :> 83) @@ ("T" :> 84) @@ ("U" :> 85)
 @@ ("V" :> 86) @@ ("W" :> 87) @@ ("X" :> 88) @@ ("Y" :> 89) @@ ("Z" :> 90)
 @@ ("[" :> 91) @@ ("\\" :> 92) @@ ("]" :> 93) @@ ("^" :> 94) @@ ("_" :> 95)
 @@ ("a" :> 97) @@ ("b" :> 98) @@ ("c" :> 99) @@ ("d" :> 100) @@ ("e" :> 101)
 @@ ("f" :> 102) @@ ("g" :> 103) @@ ("h" :> 104) @@ ("i" :> 105) @@ ("j" :> 106)
 @@ ("k" :> 107) @@ ("l" :> 108) @@ ("m" :> 109) @@ ("n" :> 110) @@ ("o" :> 111)
 @@ ("p" :> 112) @@ ("q" :> 113) @@ ("r" :> 114) @@ ("s" :> 115) @@ ("t" :> 116)
 @@ ("u" :> 117) @@ ("v" :> 118) @@ ("w" :> 119) @@ ("x" :> 120) @@ ("y" :> 121)
 @@ ("z" :> 122) @@ ("{" :> 123) @@ ("|" :> 124) @@ ("}" :> 125) @@ ("~" :> 126)

\* Go's s < t on strings: byte-wise lexicographic order.
RECURSIVE LessFrom(_, _, _)
LessFrom(s, t, i) ==
    IF i > Len(s) THEN i <= Len(t)
    ELSE IF i > Len(t) THEN FALSE
    ELSE IF s[i] = t[i] THEN LessFrom(s, t, i + 1)
    ELSE Ord[s[i]] < Ord[t[i]]

StrLess(s, t) == LessFrom(s, t, 1)

\* strings.HasPrefix, strings.HasSuffix, strings.Contains, strings.TrimPrefix
HasPrefix(s, p) == Len(p) <= Len(s) /\ SubSeq(s, 1, Len(p)) = p

HasSuffix(s, p) == Len(p) <= Len(s) /\ SubSeq(s, Len(s) - Len(p) + 1, Len(s)) = p

Contains(s, sub) ==
    \E i \in 1..(Len(s) + 1) :
        i + Len(sub) - 1 <= Len(s) /\ SubSeq(s, i, i + Len(sub) - 1) = sub

TrimPrefix(s, p) == IF HasPrefix(s, p) THEN SubSeq(s, Len(p) + 1, Len(s)) ELSE s

\* strings.Split(s, sep) for a one-byte separator: the parts between the
\* separators, one more than there are separators.
Split(s, sep) ==
    LET at == SelectSeq([i \in 1..Len(s) |-> i], LAMBDA i : s[i] = sep)
        cut == <<0>> \o at \o <<Len(s) + 1>>
    IN  [k \in 1..(Len(at) + 1) |-> SubSeq(s, cut[k] + 1, cut[k + 1] - 1)]

\* strings.SplitN(s, sep, 2)[0]: the text before the first separator.
BeforeFirst(s, sep) ==
    IF \E i \in 1..Len(s) : s[i] = sep
    THEN SubSeq(s, 1, (CHOOSE i \in 1..Len(s) :
                          s[i] = sep /\ \A j \in 1..(i - 1) : s[j] # sep) - 1)
    ELSE s

\* White space as strings.TrimSpace and strings.Fields see it (ASCII part).
IsSpace(c) == c \in {" ", "\t", "\r", "\n"}

RECURSIVE TrimLeftSpace(_)
TrimLeftSpace(s) ==
    IF s # <<>> /\ IsSpace(s[1]) THEN TrimLeftSpace(Tail(s)) ELSE s

RECURSIVE TrimRightSpace(_)
TrimRightSpace(s) ==
    IF s # <<>> /\ IsSpace(s[Len(s)])
    THEN TrimRightSpace(SubSeq(s, 1, Len(s) - 1)) ELSE s

TrimSpace(s) == TrimRightSpace(TrimLeftSpace(s))

\* strings.Fields: the maximal runs of non-space characters.
RECURSIVE FieldsFrom(_, _, _)
FieldsFrom(s, i, cur) ==
    IF i > Len(s) THEN (IF cur = <<>> THEN <<>> ELSE <<cur>>)
    ELSE IF IsSpace(s[i])
         THEN (IF cur = <<>> THEN <<>> ELSE <<cur>>) \o FieldsFrom(s, i + 1, <<>>)
         ELSE FieldsFrom(s, i + 1, Append(cur, s[i]))

Fields(s) == FieldsFrom(s, 1, <<>>)

\* strings.Trim(s, "\""): leading and trailing double quotes removed.
RECURSIVE TrimLeftQuote(_)
TrimLeftQuote(s) ==
    IF s # <<>> /\ s[1] = "\"" THEN TrimLeftQuote(Tail(s)) ELSE s

RECURSIVE TrimRightQuote(_)
TrimRightQuote(s) ==
    IF s # <<>> /\ s[Len(s)] = "\""
    THEN TrimRightQuote(SubSeq(s, 1, Len(s) - 1)) ELSE s

TrimQuotes(s) == TrimRightQuote(TrimLeftQuote(s))

\* string(bytes): the characters joined into one string.
RECURSIVE Str(_)
Str(s) == IF s = <<>> THEN "" ELSE s[1] \o Str(Tail(s))

\* The strings of a set in ascending byte order, built by putting each
\* string at its place among the others already in order.
RECURSIVE SortSet(_)
SortSet(S) ==
    IF S = {} THEN <<>>
    ELSE LET x == CHOOSE y \in S : TRUE
             rest == SortSet(S \ {x})
             k == Cardinality({i \in 1..Len(rest) : StrLess(rest[i], x)})
         IN  SubSeq(rest, 1, k) \o <<x>> \o SubSeq(rest, k + 1, Len(rest))

\* All orders in which a Go map with key set S can be ranged over.
RECURSIVE Orders(_)
Orders(S) ==
    IF S = {} THEN {<<>>}
    ELSE UNION {{<<x>> \o o : o \in Orders(S \ {x})} : x \in S}

---------------------------------------------------------------------------
(* The knowledge base (permissions.json).  The file is data outside the    *)
(* source tree; these are the contents the model loads.  KBMain holds the  *)
(* entries of the README example and of the end-to-end example; KBAlt      *)
(* holds an entry pair for the read-only filter and identifiers that are   *)
(* not of the form service:Verb.                                           *)

aws_s3_bucket == <<"a","w","s","_","s","3","_","b","u","c","k","e","t">>
aws_s3_object == <<"a","w","s","_","s","3","_","o","b","j","e","c","t">>
aws_lambda_function == <<"a","w","s","_","l","a","m","b","d","a","_","f","u","n","c","t","i","o","n">>
aws_caller_identity == <<"a","w","s","_","c","a","l","l","e","r","_","i","d","e","n","t","i","t","y">>
data_aws_s3_bucket == <<"d","a","t","a",".","a","w","s","_","s","3","_","b","u","c","k","e","t">>
google_storage_bucket == <<"g","o","o","g","l","e","_","s","t","o","r","a","g","e","_","b","u","c","k","e","t">>
aws_region == <<"a","w","s","_","r","e","g","i","o","n">>

s3_CreateBucket == <<"s","3",":","C","r","e","a","t","e","B","u","c","k","e","t">>
s3_DeleteBucket == <<"s","3",":","D","e","l","e","t","e","B","u","c","k","e","t">>
s3_GetBucketLocation == <<"s","3",":","G","e","t","B","u","c","k","e","t","L","o","c","a","t","i","o","n">>
s3_ListBucket == <<"s","3",":","L","i","s","t","B","u","c","k","e","t">>
s3_GetObject == <<"s","3",":","G","e","t","O","b","j","e","c","t">>
s3_PutObject == <<"s","3",":","P","u","t","O","b","j","e","c","t">>
s3_DeleteObject == <<"s","3",":","D","e","l","e","t","e","O","b","j","e","c","t">>
lambda_CreateFunction == <<"l","a","m","b","d","a",":","C","r","e","a","t","e","F","u","n","c","t","i","o","n">>
lambda_InvokeFunction == <<"l","a","m","b","d","a",":","I","n","v","o","k","e","F","u","n","c","t","i","o","n">>
lambda_GetFunction == <<"l","a","m","b","d","a",":","G","e","t","F","u","n","c","t","i","o","n">>
lambda_DeleteFunction == <<"l","a","m","b","d","a",":","D","e","l","e","t","e","F","u","n","c","t","i","o","n">>
lambda_UpdateFunctionCode == <<"l","a","m","b","d","a",":","U","p","d","a","t","e","F","u","n","c","t","i","o","n","C","o","d","e">>
sts_GetCallerIdentity == <<"s","t","s",":","G","e","t","C","a","l","l","e","r","I","d","e","n","t","i","t","y">>
dynamodb_GetItem == <<"d","y","n","a","m","o","d","b",":","G","e","t","I","t","e","m">>
dynamodb_PutItem == <<"d","y","n","a","m","o","d","b",":","P","u","t","I","t","e","m">>
dynamodb_DeleteItem == <<"d","y","n","a","m","o","d","b",":","D","e","l","e","t","e","I","t","e","m">>
dynamodb_DescribeTable == <<"d","y","n","a","m","o","d","b",":","D","e","s","c","r","i","b","e","T","a","b","l","e">>
\* identifiers that do not split on ':' into exactly two parts
lambdaInvoke == <<"l","a","m","b","d","a","I","n","v","o","k","e">>
s3_Get_Object == <<"s","3",":","G","e","t",":","O","b","j","e","c","t">>

\* A ResourcePermissions value (parser.go:41-44).
Perms(actions, types) == [Actions |-> actions, ResourceTypes |-> types]

KBMain ==
    (aws_s3_bucket :> Perms(<<s3_CreateBucket, s3_DeleteBucket,
                              s3_GetBucketLocation, s3_ListBucket>>, <<"bucket">>))
 @@ (aws_s3_object :> Perms(<<s3_GetObject, s3_PutObject>>, <<"object">>))
 @@ (aws_lambda_function :> Perms(<<lambda_CreateFunction, lambda_InvokeFunction,
                                    lambda_GetFunction, lambda_DeleteFunction,
                                    lambda_UpdateFunctionCode>>, <<"function">>))

KBAlt ==
    (aws_s3_bucket :> Perms(<<s3_GetObject, s3_CreateBucket>>, <<>>))
 @@ (aws_s3_object :> Perms(<<s3_DeleteBucket, s3_Get_Object>>, <<>>))
 @@ (aws_lambda_function :> Perms(<<lambdaInvoke>>, <<>>))
 @@ (aws_caller_identity :> Perms(<<sts_GetCallerIdentity>>, <<>>))

\* The contents permissions.json can have when it is read.
KBFiles == {KBMain, KBAlt}

\* Every resource type a lookup is tried with.
TypeUniverse ==
    {aws_s3_bucket, aws_s3_object, aws_lambda_function, aws_caller_identity,
     data_aws_s3_bucket, google_storage_bucket, aws_region, <<>>}

\* permissionsDB: a Go map value, nil until loaded.
NilDB == [isNil |-> TRUE, entries |-> <<>>]

LoadedDB(kb) == [isNil |-> FALSE, entries |-> kb]

---------------------------------------------------------------------------
(* Constants of policy.go.                                                 *)

FormatJSON == "json"
FormatYAML == "yaml"
FormatTerraform == "terraform"

\* A selector that is none of the three (OutputFormat is a string type).
FormatOther == "xml"

Formats == {FormatJSON, FormatYAML, FormatTerraform, FormatOther}

\* backendActions, in the order of the literal.
backendActions ==
    <<s3_GetObject, s3_PutObject, s3_ListBucket, s3_DeleteObject,
      dynamodb_GetItem, dynamodb_PutItem, dynamodb_DeleteItem, dynamodb_DescribeTable>>

\* "more than 5 actions for a service"
WildcardThreshold == 5

\* arnMap of getResourceARNForService.
arnMap ==
    (<<"e","c","2">> :> "arn:aws:ec2:*:*:*")
 @@ (<<"s","3">> :> "arn:aws:s3:::*")
 @@ (<<"i","a","m">> :> "arn:aws:iam::*:*")
 @@ (<<"r","d","s">> :> "arn:aws:rds:*:*:*")
 @@ (<<"l","a","m","b","d","a">> :> "arn:aws:lambda:*:*:*")
 @@ (<<"a","p","i","g","a","t","e","w","a","y">> :> "arn:aws:apigateway:*::*")
 @@ (<<"s","n","s">> :> "arn:aws:sns:*:*:*")
 @@ (<<"s","q","s">> :> "arn:aws:sqs:*:*:*")
 @@ (<<"d","y","n","a","m","o","d","b">> :> "arn:aws:dynamodb:*:*:*")
 @@ (<<"l","o","g","s">> :> "arn:aws:logs:*:*:*")
 @@ (<<"c","l","o","u","d","w","a","t","c","h">> :> "arn:aws:cloudwatch:*:*:*")
 @@ (<<"a","u","t","o","s","c","a","l","i","n","g">> :> "arn:aws:autoscaling:*:*:*")
 @@ (<<"a","p","p","l","i","c","a","t","i","o","n","-","a","u","t","o","s","c","a","l","i","n","g">> :> "arn:aws:application-autoscaling:*:*:*")
 @@ (<<"r","o","u","t","e","5","3">> :> "arn:aws:route53:::*")
 @@ (<<"c","l","o","u","d","f","r","o","n","t">> :> "arn:aws:cloudfront:::*")
 @@ (<<"e","l","a","s","t","i","c","l","o","a","d","b","a","l","a","n","c","i","n","g">> :> "arn:aws:elasticloadbalancing:*:*:*")
 @@ (<<"e","l","a","s","t","i","c","f","i","l","e","s","y","s","t","e","m">> :> "arn:aws:elasticfilesystem:*:*:*")
 @@ (<<"s","e","c","r","e","t","s","m","a","n","a","g","e","r">> :> "arn:aws:secretsmanager:*:*:*")
 @@ (<<"k","m","s">> :> "arn:aws:kms:*:*:*")
 @@ (<<"e","c","r">> :> "arn:aws:ecr:*:*:repository/*")
 @@ (<<"e","c","s">> :> "arn:aws:ecs:*:*:*")
 @@ (<<"e","k","s">> :> "arn:aws:eks:*:*:cluster/*")
 @@ (<<"e","v","e","n","t","s">> :> "arn:aws:events:*:*:rule/*")
 @@ (<<"c","o","d","e","p","i","p","e","l","i","n","e">> :> "arn:aws:codepipeline:*:*:*")
 @@ (<<"c","o","d","e","d","e","p","l","o","y">> :> "arn:aws:codedeploy:*:*:*")
 @@ (<<"c","o","d","e","b","u","i","l","d">> :> "arn:aws:codebuild:*:*:project/*")
 @@ (<<"c","o","d","e","c","o","m","m","i","t">> :> "arn:aws:codecommit:*:*:*")
 @@ (<<"g","l","u","e">> :> "arn:aws:glue:*:*:*")
 @@ (<<"r","e","d","s","h","i","f","t">> :> "arn:aws:redshift:*:*:cluster:*")
 @@ (<<"e","l","a","s","t","i","c","a","c","h","e">> :> "arn:aws:elasticache:*:*:*")
 @@ (<<"e","s">> :> "arn:aws:es:*:*:domain/*")
 @@ (<<"k","i","n","e","s","i","s">> :> "arn:aws:kinesis:*:*:stream/*")
 @@ (<<"f","i","r","e","h","o","s","e">> :> "arn:aws:firehose:*:*:deliverystream/*")
 @@ (<<"a","t","h","e","n","a">> :> "arn:aws:athena:*:*:workgroup/*")
 @@ (<<"d","a","t","a","s","y","n","c">> :> "arn:aws:datasync:*:*:*")
 @@ (<<"b","a","c","k","u","p">> :> "arn:aws:backup:*:*:*")
 @@ (<<"b","a","t","c","h">> :> "arn:aws:batch:*:*:*")
 @@ (<<"g","u","a","r","d","d","u","t","y">> :> "arn:aws:guardduty:*:*:detector/*")
 @@ (<<"s","e","c","u","r","i","t","y","h","u","b">> :> "arn:aws:securityhub:*:*:hub/default")
 @@ (<<"i","n","s","p","e","c","t","o","r">> :> "arn:aws:inspector:*:*:*")
 @@ (<<"c","o","n","f","i","g">> :> "arn:aws:config:*:*:*")
 @@ (<<"w","a","f">> :> "arn:aws:waf:::*")
 @@ (<<"w","a","f","-","r","e","g","i","o","n","a","l">> :> "arn:aws:waf-regional:*:*:*")
 @@ (<<"w","a","f","v","2">> :> "arn:aws:wafv2:*:*:*")
 @@ (<<"s","h","i","e","l","d">> :> "arn:aws:shield:::*")
 @@ (<<"s","s","m">> :> "arn:aws:ssm:*:*:*")
 @@ (<<"t","r","a","n","s","f","e","r">> :> "arn:aws:transfer:*:*:server/*")
 @@ (<<"m","q">> :> "arn:aws:mq:*:*:broker/*")
 @@ (<<"i","o","t">> :> "arn:aws:iot:*:*:*")
 @@ (<<"m","o","b","i","l","e","t","a","r","g","e","t","i","n","g">> :> "arn:aws:mobiletargeting:*:*:apps/*")
 @@ (<<"m","e","d","i","a","c","o","n","v","e","r","t">> :> "arn:aws:mediaconvert:*:*:queues/*")
 @@ (<<"m","e","d","i","a","s","t","o","r","e">> :> "arn:aws:mediastore:*:*:container/*")
 @@ (<<"s","t","o","r","a","g","e","g","a","t","e","w","a","y">> :> "arn:aws:storagegateway:*:*:gateway/*")
 @@ (<<"s","e","r","v","i","c","e","d","i","s","c","o","v","e","r","y">> :> "arn:aws:servicediscovery:*:*:*")
 @@ (<<"a","p","p","m","e","s","h">> :> "arn:aws:appmesh:*:*:mesh/*")
 @@ (<<"s","t","a","t","e","s">> :> "arn:aws:states:*:*:stateMachine:*")
 @@ (<<"n","e","t","w","o","r","k","-","f","i","r","e","w","a","l","l">> :> "arn:aws:network-firewall:*:*:*")
 @@ (<<"a","m","p","l","i","f","y">> :> "arn:aws:amplify:*:*:*")
 @@ (<<"a","p","p","s","y","n","c">> :> "arn:aws:appsync:*:*:apis/*")
 @@ (<<"c","o","g","n","i","t","o","-","i","d","p">> :> "arn:aws:cognito-idp:*:*:userpool/*")
 @@ (<<"c","o","g","n","i","t","o","-","i","d","e","n","t","i","t","y">> :> "arn:aws:cognito-identity:*:*:identitypool/*")
 @@ (<<"f","s","x">> :> "arn:aws:fsx:*:*:file-system/*")
 @@ (<<"q","l","d","b">> :> "arn:aws:qldb:*:*:*")
 @@ (<<"t","i","m","e","s","t","r","e","a","m">> :> "arn:aws:timestream:*:*:*")
 @@ (<<"m","e","m","o","r","y","d","b">> :> "arn:aws:memorydb:*:*:cluster/*")

---------------------------------------------------------------------------
(* The input surface: directory entries.  hclsyntax.ParseConfig is a       *)
(* library; an entry records what it returns for the file (hclOK and the   *)
(* top-level blocks) beside the file's lines, which the fallback scanner   *)
(* reads when the parse reports errors.                                    *)

\* A cty value as attr.Expr.Value(nil) returns it: its type and its text.
CtyString(v) == [ty |-> "string", v |-> v]
CtyBool(v) == [ty |-> "bool", v |-> v]

\* An hclsyntax.Block: Type, Labels, Body.Attributes, Body.Blocks.
Block(type, labels, attrs, blocks) ==
    [Type |-> type, Labels |-> labels, Attributes |-> attrs, Blocks |-> blocks]

NoAttrs == <<>>

\* A directory entry as filepath.Walk hands it to the callback.
TfFile(name, blocks) ==
    [name |-> name, walkErr |-> FALSE, readErr |-> FALSE, hclOK |-> TRUE,
     blocks |-> blocks, lines |-> <<>>, content |-> <<>>]

BrokenTfFile(name, lines) ==
    [name |-> name, walkErr |-> FALSE, readErr |-> FALSE, hclOK |-> FALSE,
     blocks |-> <<>>, lines |-> lines, content |-> <<>>]

PlainFile(name, content) ==
    [name |-> name, walkErr |-> FALSE, readErr |-> FALSE, hclOK |-> FALSE,
     blocks |-> <<>>, lines |-> <<>>, content |-> content]

UnreadableFile(name) ==
    [name |-> name, walkErr |-> FALSE, readErr |-> TRUE, hclOK |-> FALSE,
     blocks |-> <<>>, lines |-> <<>>, content |-> <<>>]

\* An entry filepath.Walk could not stat or list (the callback gets err # nil).
WalkErrEntry(name) ==
    [name |-> name, walkErr |-> TRUE, readErr |-> FALSE, hclOK |-> FALSE,
     blocks |-> <<>>, lines |-> <<>>, content |-> <<>>]

\* main.tf: the two resources of the end-to-end example.
MainTf ==
    TfFile(<<"m","a","i","n",".","t","f">>,
        <<Block("resource", <<aws_s3_bucket, <<"b">>>>, ("bucket" :> CtyString("my-data")), <<>>),
          Block("resource", <<aws_lambda_function, <<"f">>>>, NoAttrs, <<>>)>>)

\* fn.tf: one function.
FnTf ==
    TfFile(<<"f","n",".","t","f">>,
        <<Block("resource", <<aws_lambda_function, <<"g">>>>,
                ("runtime" :> CtyString("go1.x")), <<>>)>>)

\* store.tf: an object, a resource of another provider, a block with one
\* label, a data reference.
StoreTf ==
    TfFile(<<"s","t","o","r","e",".","t","f">>,
        <<Block("resource", <<aws_s3_object, <<"o">>>>, NoAttrs, <<>>),
          Block("resource", <<google_storage_bucket, <<"g">>>>, NoAttrs, <<>>),
          Block("resource", <<aws_s3_bucket>>, NoAttrs, <<>>),
          Block("data", <<aws_caller_identity, <<"m","e">>>>, NoAttrs, <<>>),
          Block("variable", <<<<"e","n","v">>>>, NoAttrs, <<>>)>>)

\* data.tf: a data reference with a "data." prefix in its type, and a
\* data block with one label.
DataTf ==
    TfFile(<<"d","a","t","a",".","t","f">>,
        <<Block("data", <<data_aws_s3_bucket, <<"d">>>>, NoAttrs, <<>>),
          Block("data", <<aws_s3_bucket>>, NoAttrs, <<>>)>>)

\* backend.tf: terraform { required_providers {} backend "s3" { ... } }
BackendTf ==
    TfFile(<<"b","a","c","k","e","n","d",".","t","f">>,
        <<Block("terraform", <<>>, NoAttrs,
            <<Block("required_providers", <<>>, NoAttrs, <<>>),
              Block("backend", <<<<"s","3">>>>,
                    ("bucket" :> CtyString("tfstate")) @@ ("encrypt" :> CtyBool("true")),
                    <<>>)>>)>>)

\* local.tf: two terraform blocks, each with a backend.
LocalTf ==
    TfFile(<<"l","o","c","a","l",".","t","f">>,
        <<Block("terraform", <<>>, NoAttrs,
            <<Block("backend", <<<<"l","o","c","a","l">>>>, ("path" :> CtyString("tf.state")), <<>>)>>),
          Block("terraform", <<>>, NoAttrs,
            <<Block("backend", <<<<"g","c","s">>>>, NoAttrs, <<>>)>>)>>)

\* broken.tf: unbalanced braces; ParseConfig reports errors.
BrokenTf ==
    BrokenTfFile(<<"b","r","o","k","e","n",".","t","f">>,
        <<<<"#"," ","r","e","s","o","u","r","c","e"," ","\"","a","w","s","_","v","p","c","\""," ","\"","c","\""," ","{">>,
          <<"t","e","r","r","a","f","o","r","m"," ","{">>,
          <<" "," ","b","a","c","k","e","n","d"," ","\"","g","c","s","\""," ","{">>,
          <<"}">>,
          <<" "," ","b","a","c","k","e","n","d"," ","\"","l","o","c","a","l","\""," ","{">>,
          <<"t","e","r","r","a","f","o","r","m"," ","{">>,
          <<"r","e","s","o","u","r","c","e"," ","\"","a","w","s","_","l","a","m","b","d","a","_","f","u","n","c","t","i","o","n","\""," ","\"","o","\""," ","{">>,
          <<" "," ","b","a","c","k","e","n","d"," ","\"","c","o","n","s","u","l","\""," ","{">>,
          <<"d","a","t","a"," ","\"","a","w","s","_","r","e","g","i","o","n","\"">>,
          <<"r","e","s","o","u","r","c","e"," ","\"","g","o","o","g","l","e","_","s","t","o","r","a","g","e","_","b","u","c","k","e","t","\""," ","\"","g","\""," ","{">>>>)

\* secret.tf: a configuration file os.ReadFile cannot read.
SecretTf == UnreadableFile(<<"s","e","c","r","e","t",".","t","f">>)

\* State files: text with "backend", text with "s3", text with neither,
\* and one that cannot be read.
StateBackend == PlainFile(<<"t","e","r","r","a","f","o","r","m",".","t","f","s","t","a","t","e">>, <<"{","\"","b","a","c","k","e","n","d","\"",":","{","}","}">>)
StateS3 == PlainFile(<<"p","r","o","d",".","t","f","s","t","a","t","e">>, <<"{","\"","t","y","p","e","\"",":","\"","s","3","\"","}">>)
StatePlain == PlainFile(<<"o","l","d",".","t","f","s","t","a","t","e">>, <<"{","\"","v","e","r","s","i","o","n","\"",":","4","}">>)
StateUnreadable == UnreadableFile(<<"l","o","c","k",".","t","f","s","t","a","t","e">>)

\* A file the extractor does not look at, and an entry whose walk fails.
Readme == PlainFile(<<"R","E","A","D","M","E",".","m","d">>, <<"s","3"," ","b","a","c","k","e","n","d">>)
Denied == WalkErrEntry(<<"p","r","i","v","a","t","e">>)

Catalogue ==
    {MainTf, FnTf, StoreTf, DataTf, BackendTf, LocalTf, BrokenTf, SecretTf,
     StateBackend, StateS3, StatePlain, StateUnreadable, Readme, Denied}

\* Most entries of a walked tree.
MaxFiles == 2

\* The walks of at most n distinct entries.  Entries lie in arbitrary
\* subdirectories, so any order of them is a lexicographic order of paths.
RECURSIVE Walks(_)
Walks(n) ==
    IF n = 0 THEN {<<>>}
    ELSE LET shorter == Walks(n - 1)
             longest == {w \in shorter : Len(w) = n - 1}
         IN  shorter \cup
             {Append(p[1], p[2]) :
                p \in {q \in longest \X Catalogue : q[2] \notin Range(q[1])}}

---------------------------------------------------------------------------
(* parser.go                                                               *)

\* A Resource value (parser.go:16-22).
Resource(type, name, provider, attrs) ==
    [Type |-> type, Name |-> name, Provider |-> provider,
     Attributes |-> attrs, ResourceType |-> type]

\* *BackendConfig: nil, or a value (parser.go:25-28).
NilBackend == [isNil |-> TRUE, Type |-> <<>>, Config |-> <<>>]

BackendConfig(type, config) == [isNil |-> FALSE, Type |-> type, Config |-> config]

\* *ParseResult: nil, or a value (parser.go:31-35).
NilResult ==
    [isNil |-> TRUE, Resources |-> <<>>, Backend |-> NilBackend, DataSources |-> <<>>]

EmptyResult ==
    [isNil |-> FALSE, Resources |-> <<>>, Backend |-> NilBackend, DataSources |-> <<>>]

\* An error value: nil, or what failed and on which path.
NoErr == [op |-> "", path |-> <<>>, cause |-> ""]

Err(op, path, cause) == [op |-> op, path |-> path, cause |-> cause]

\* The provider of a resource block: "aws" for aws_ types, else the text
\* before the first '_', else the default.
ProviderOfResource(fullType) ==
    IF HasPrefix(fullType, <<"a","w","s","_">>) THEN <<"a","w","s">>
    ELSE IF Contains(fullType, <<"_">>) THEN BeforeFirst(fullType, "_")
    ELSE <<"a","w","s">>

extractResourceFromBlock(block) ==
    IF Len(block.Labels) < 2 THEN <<>>
    ELSE <<Resource(block.Labels[1], block.Labels[2],
                    ProviderOfResource(block.Labels[1]), block.Attributes)>>

\* The provider of a data block and of every line the fallback scans:
\* "aws" on both branches.
ProviderDefault(fullType) ==
    IF HasPrefix(fullType, <<"a","w","s","_">>) THEN <<"a","w","s">> ELSE <<"a","w","s">>

extractDataSourceFromBlock(block) ==
    IF Len(block.Labels) < 2 THEN <<>>
    ELSE <<Resource(block.Labels[1], block.Labels[2],
                    ProviderDefault(block.Labels[1]), NoAttrs)>>

\* The string-valued attributes of a backend block.
StringConfig(attrs) ==
    LET names == {n \in DOMAIN attrs : attrs[n].ty = "string"}
    IN  [n \in names |-> attrs[n].v]

\* The first nested "backend" block with a label, or nil.
RECURSIVE BackendFromBlocks(_)
BackendFromBlocks(nested) ==
    IF nested = <<>> THEN NilBackend
    ELSE IF nested[1].Type = "backend" /\ Len(nested[1].Labels) > 0
         THEN BackendConfig(nested[1].Labels[1], StringConfig(nested[1].Attributes))
         ELSE BackendFromBlocks(Tail(nested))

extractBackendFromBlock(block) == BackendFromBlocks(block.Blocks)

\* extractBackendFromState: <<backend, error>>.
extractBackendFromState(entry) ==
    IF entry.readErr THEN <<NilBackend, Err("read", entry.name, "read")>>
    ELSE IF Contains(entry.content, <<"s","3">>) \/ Contains(entry.content, <<"b","a","c","k","e","n","d">>)
         THEN <<BackendConfig(<<"s","3">>, <<>>), NoErr>>
         ELSE <<NilBackend, NoErr>>

\* The loop over syntaxBody.Blocks of parseTerraformFile.
RECURSIVE ExtractBlocks(_, _)
ExtractBlocks(blocks, res) ==
    IF blocks = <<>> THEN res
    ELSE LET block == blocks[1]
             next ==
                IF block.Type = "resource"
                THEN [res EXCEPT !.Resources = @ \o extractResourceFromBlock(block)]
                ELSE IF block.Type = "data"
                THEN [res EXCEPT !.DataSources = @ \o extractDataSourceFromBlock(block)]
                ELSE IF block.Type = "terraform"
                THEN LET backend == extractBackendFromBlock(block)
                     IN  IF backend.isNil THEN res
                         ELSE [res EXCEPT !.Backend = backend]
                ELSE res
         IN  ExtractBlocks(Tail(blocks), next)

\* A line loop that takes every backend line, inside a terraform block or not.
ScanLineAlwaysArmed(st, line) ==
    LET trimmed == TrimSpace(line)
        parts == Fields(trimmed)
    IN
    IF HasPrefix(trimmed, <<"#">>) \/ HasPrefix(trimmed, <<"/","/">>) \/ trimmed = <<>>
    THEN st
    ELSE
    LET s1 ==
            IF HasPrefix(trimmed, <<"r","e","s","o","u","r","c","e"," ","\"">>)
            THEN LET name == IF Len(parts) >= 3 THEN TrimQuotes(parts[3])
                                                ELSE st.currentName
                 IN  IF Len(parts) >= 2
                     THEN [st EXCEPT
                             !.currentBlock = "resource",
                             !.currentName = name,
                             !.res.Resources =
                                 Append(@, Resource(TrimQuotes(parts[2]), name,
                                        ProviderDefault(TrimQuotes(parts[2])), NoAttrs))]
                     ELSE [st EXCEPT !.currentBlock = "resource"]
            ELSE IF HasPrefix(trimmed, <<"d","a","t","a"," ","\"">>)
            THEN LET name == IF Len(parts) >= 3 THEN TrimQuotes(parts[3])
                                                ELSE st.currentName
                 IN  IF Len(parts) >= 2
                     THEN [st EXCEPT
                             !.currentBlock = "data",
                             !.currentName = name,
                             !.res.DataSources =
                                 Append(@, Resource(TrimQuotes(parts[2]), name,
                                        ProviderDefault(TrimQuotes(parts[2])), NoAttrs))]
                     ELSE [st EXCEPT !.currentBlock = "data"]
            ELSE st
        s2 ==
            IF Contains(trimmed, <<"b","a","c","k","e","n","d"," ","\"">>) /\ Len(parts) >= 2
            THEN [s1 EXCEPT !.res.Backend = BackendConfig(TrimQuotes(parts[2]), <<>>)]
            ELSE s1
        s3 ==
            IF HasPrefix(trimmed, <<"t","e","r","r","a","f","o","r","m">>)
            THEN [s2 EXCEPT !.currentBlock = "terraform"]
            ELSE s2
    IN  IF trimmed = <<"}">>
        THEN [s3 EXCEPT !.currentBlock = "", !.currentName = <<>>]
        ELSE s3

\* One iteration of the line loop of extractWithSimpleParsing.  st holds the
\* result so far, currentBlock and currentName.
ScanLine(st, line) ==
    LET trimmed == TrimSpace(line)
        parts == Fields(trimmed)
    IN
    IF HasPrefix(trimmed, <<"#">>) \/ HasPrefix(trimmed, <<"/","/">>) \/ trimmed = <<>>
    THEN st
    ELSE
    LET s1 ==
            IF HasPrefix(trimmed, <<"r","e","s","o","u","r","c","e"," ","\"">>)
            THEN LET name == IF Len(parts) >= 3 THEN TrimQuotes(parts[3])
                                                ELSE st.currentName
                 IN  IF Len(parts) >= 2
                     THEN [st EXCEPT
                             !.currentBlock = "resource",
                             !.currentName = name,
                             !.res.Resources =
                                 Append(@, Resource(TrimQuotes(parts[2]), name,
                                        ProviderDefault(TrimQuotes(parts[2])), NoAttrs))]
                     ELSE [st EXCEPT !.currentBlock = "resource"]
            ELSE IF HasPrefix(trimmed, <<"d","a","t","a"," ","\"">>)
            THEN LET name == IF Len(parts) >= 3 THEN TrimQuotes(parts[3])
                                                ELSE st.currentName
                 IN  IF Len(parts) >= 2
                     THEN [st EXCEPT
                             !.currentBlock = "data",
                             !.currentName = name,
                             !.res.DataSources =
                                 Append(@, Resource(TrimQuotes(parts[2]), name,
                                        ProviderDefault(TrimQuotes(parts[2])), NoAttrs))]
                     ELSE [st EXCEPT !.currentBlock = "data"]
            ELSE st
        s2 ==
            IF Contains(trimmed, <<"b","a","c","k","e","n","d"," ","\"">>) /\ s1.currentBlock = "terraform"
                 /\ Len(parts) >= 2
            THEN [s1 EXCEPT !.res.Backend = BackendConfig(TrimQuotes(parts[2]), <<>>)]
            ELSE s1
        s3 ==
            IF HasPrefix(trimmed, <<"t","e","r","r","a","f","o","r","m">>)
            THEN [s2 EXCEPT !.currentBlock = "terraform"]
            ELSE s2
    IN  IF trimmed = <<"}">>
        THEN [s3 EXCEPT !.currentBlock = "", !.currentName = <<>>]
        ELSE s3

RECURSIVE ScanLines(_, _)
ScanLines(lines, st) ==
    IF lines = <<>> THEN st ELSE ScanLines(Tail(lines), ScanLine(st, lines[1]))

\* extractWithSimpleParsing: the fallback when the HCL parse reports errors.
extractWithSimpleParsing(lines) ==
    ScanLines(lines, [res |-> EmptyResult, currentBlock |-> "", currentName |-> <<>>]).res

\* A parseTerraformFile that reports the diagnostics of the HCL parse as an error.
parseTerraformFileStrict(entry) ==
    IF entry.readErr THEN <<NilResult, Err("read", entry.name, "read")>>
    ELSE IF ~entry.hclOK THEN <<NilResult, Err("parse", entry.name, "syntax")>>
    ELSE <<ExtractBlocks(entry.blocks, EmptyResult), NoErr>>

\* parseTerraformFile: <<result, error>>.
parseTerraformFile(entry) ==
    IF entry.readErr THEN <<NilResult, Err("read", entry.name, "read")>>
    ELSE IF ~entry.hclOK THEN <<extractWithSimpleParsing(entry.lines), NoErr>>
    ELSE <<ExtractBlocks(entry.blocks, EmptyResult), NoErr>>

\* getRequiredPermissions
getRequiredPermissions(resourceType) ==
    IF permissionsDB.isNil THEN <<>>
    ELSE IF resourceType \in DOMAIN permissionsDB.entries
         THEN permissionsDB.entries[resourceType].Actions
         ELSE <<>>

\* The state-file test of the walk callback.
IsStateFileName(name) ==
    name = <<"t","e","r","r","a","f","o","r","m",".","t","f","s","t","a","t","e">> \/ HasSuffix(name, <<".","t","f","s","t","a","t","e">>)

\* parser.go:93-95: a file's backend is kept only while none is set.
MergeFileBackend(current, found) ==
    IF ~found.isNil /\ current.isNil THEN found ELSE current

\* The state-file backend taken only when none is set yet.
MergeStateBackendIfNone(current, found, err) ==
    IF err = NoErr /\ ~found.isNil /\ current.isNil THEN found ELSE current

\* parser.go:100-103: a backend read from a state file replaces the current one.
MergeStateBackend(current, found, err) ==
    IF err = NoErr /\ ~found.isNil THEN found ELSE current

\* The callback of filepath.Walk on one entry: <<result, error>>.  A non-nil
\* error ends the walk.
WalkFn(entry, res) ==
    IF entry.walkErr THEN <<res, Err("walk", entry.name, "walk")>>
    ELSE
    LET isTf == HasSuffix(entry.name, <<".","t","f">>)
        parsed == IF isTf THEN parseTerraformFile(entry) ELSE <<EmptyResult, NoErr>>
    IN
    IF isTf /\ parsed[2] # NoErr
    THEN <<res, Err("error parsing", entry.name, parsed[2].cause)>>
    ELSE
    LET r1 == IF isTf
              THEN [res EXCEPT
                      !.Resources = @ \o parsed[1].Resources,
                      !.DataSources = @ \o parsed[1].DataSources,
                      !.Backend = MergeFileBackend(@, parsed[1].Backend)]
              ELSE res
    IN  IF IsStateFileName(entry.name)
        THEN LET state == extractBackendFromState(entry)
             IN  <<[r1 EXCEPT !.Backend = MergeStateBackend(@, state[1], state[2])], NoErr>>
        ELSE <<r1, NoErr>>

---------------------------------------------------------------------------
(* policy.go                                                               *)

\* An IAMStatement (policy.go: Effect, Action, Resource).
IAMStatement(action, resource) ==
    [Effect |-> "Allow", Action |-> action, Resource |-> resource]

\* The set of the elements of a list, as ranging over it and setting
\* actions[action] = true collects them.
ActionSet(list) == Range(list)

\* Actions of the resources: provider "aws", non-empty type.
ResourceActions(res) ==
    UNION {ActionSet(getRequiredPermissions(res.Resources[i].Type)) :
             i \in {j \in 1..Len(res.Resources) :
                      /\ res.Resources[j].Provider = <<"a","w","s">>
                      /\ res.Resources[j].Type # <<>>}}

\* No filter: every action of a data source is kept.
IsReadOnlyActionUnfiltered(action) == TRUE

\* The read-only filter of the data sources.
IsReadOnlyAction(action) ==
    \/ Contains(action, <<"D","e","s","c","r","i","b","e">>)
    \/ Contains(action, <<"G","e","t">>)
    \/ Contains(action, <<"L","i","s","t">>)

\* The key a data source is looked up with.
DataSourceKey(type) == TrimPrefix(type, <<"d","a","t","a",".">>)

DataSourceActions(res) ==
    UNION {{a \in ActionSet(getRequiredPermissions(DataSourceKey(res.DataSources[i].Type))) :
              IsReadOnlyAction(a)} :
             i \in {j \in 1..Len(res.DataSources) :
                      /\ res.DataSources[j].Provider = <<"a","w","s">>
                      /\ res.DataSources[j].Type # <<>>}}

\* The flag alone, a detected backend not looked at.
NeedsBackendActionsFlagOnly(res, includeStateBackend) == includeStateBackend

\* Whether the state backend permissions are added.
NeedsBackendActions(res, includeStateBackend) ==
    includeStateBackend \/ ~res.Backend.isNil

\* The "actions" map after the three collection steps.
CollectActions(res, includeStateBackend) ==
    ResourceActions(res) \cup DataSourceActions(res) \cup
    (IF NeedsBackendActions(res, includeStateBackend)
     THEN ActionSet(backendActions) ELSE {})

\* Every action identifier a working set can hold: those of the knowledge
\* base files and the state-backend actions.
KnownActions ==
    UNION {UNION {Range(kb[t].Actions) : t \in DOMAIN kb} : kb \in KBFiles}
    \cup Range(backendActions)

KnownActionsSorted == SortSet(KnownActions)

\* sort.Strings(actionList) on the keys of the actions map (distinct
\* strings, in any order): the ascending sequence.  For a set of known
\* actions it is the sorted list of the known actions without the others.
SortStrings(S) ==
    IF S \subseteq KnownActions
    THEN SelectSeq(KnownActionsSorted, LAMBDA a : a \in S)
    ELSE SortSet(S)

\* The threshold reached, not passed.
UseWildcardFromThreshold(actionNames) == Len(actionNames) >= WildcardThreshold

\* Whether a service's actions are replaced by its wildcard.
UseWildcard(actionNames) == Len(actionNames) > WildcardThreshold

\* strings.Split(action, ":") of every action of a list.
SplitActions(actions) == [i \in 1..Len(actions) |-> Split(actions[i], ":")]

\* Whether every identifier splits on ':' into exactly two parts.
AllWellFormed(parts) == \A i \in 1..Len(parts) : Len(parts[i]) = 2

\* servicePrefixes[service]: the action names of a service, in the order
\* of the list.
ServicePrefixes(parts, service) ==
    LET own == SelectSeq(parts, LAMBDA p : p[1] = service)
    IN  [i \in 1..Len(own) |-> own[i][2]]

\* A loop body that appends the wildcard of the service and each of its actions.
GroupEntriesWildcardAndAll(service, actionNames) ==
    <<service \o <<":","*">>>>
    \o [i \in 1..Len(actionNames) |-> service \o <<":">> \o actionNames[i]]

\* What the second loop of groupActionsByService appends for one service.
GroupEntries(service, actionNames) ==
    IF UseWildcard(actionNames)
    THEN <<service \o <<":","*">>>>
    ELSE [i \in 1..Len(actionNames) |-> service \o <<":">> \o actionNames[i]]

\* The second loop of groupActionsByService, over the services in the
\* order the map is ranged over.
RECURSIVE GroupedInOrder(_, _)
GroupedInOrder(parts, order) ==
    IF order = <<>> THEN <<>>
    ELSE GroupEntries(order[1], ServicePrefixes(parts, order[1]))
         \o GroupedInOrder(parts, Tail(order))

\* A grouping that leaves out the identifiers that do not split in two and
\* groups the others.
groupActionsByServiceGoodOnly(actions, order) ==
    GroupedInOrder(
        SplitActions(SelectSeq(actions, LAMBDA a : Len(Split(a, ":")) = 2)), order)

\* groupActionsByService, ranging over its map in the given order (an
\* order of the map's keys).  The list is returned as it is when an
\* identifier does not split in two.
groupActionsByService(actions, order) ==
    LET parts == SplitActions(actions)
    IN  IF ~AllWellFormed(parts) THEN actions
        ELSE GroupedInOrder(parts, order)

\* groupActionsByServiceWithActions: service -> its identifiers, in the
\* order of the list; identifiers that do not split in two are left out.
groupActionsByServiceWithActions(actions) ==
    LET parts == SplitActions(actions)
        good == {i \in 1..Len(actions) : Len(parts[i]) = 2}
        services == {parts[i][1] : i \in good}
    IN  [s \in services |->
            SelectSeq(actions, LAMBDA a : Len(Split(a, ":")) = 2 /\ Split(a, ":")[1] = s)]

\* getResourceARNForService
getResourceARNForService(service) ==
    IF service \in DOMAIN arnMap THEN arnMap[service] ELSE "*"

\* The less function of sort.Slice over the statements.
StatementLess(si, sj) ==
    IF Len(si.Action) > 0 /\ Len(sj.Action) > 0
    THEN StrLess(si.Action[1], sj.Action[1])
    ELSE FALSE

\* sort.Slice(statements, less) as an insertion sort.
RECURSIVE InsertStatement(_, _)
InsertStatement(sorted, s) ==
    IF sorted = <<>> THEN <<s>>
    ELSE IF StatementLess(s, sorted[1]) THEN <<s>> \o sorted
    ELSE <<sorted[1]>> \o InsertStatement(Tail(sorted), s)

RECURSIVE SortStatements(_)
SortStatements(stmts) ==
    IF stmts = <<>> THEN <<>>
    ELSE InsertStatement(SortStatements(SubSeq(stmts, 1, Len(stmts) - 1)),
                         stmts[Len(stmts)])

\* The statements of least-privilege mode left in the order the map is
\* ranged over.
LeastPrivilegeStatementsAsAppended(actionList, order) ==
    LET groupedByService == groupActionsByServiceWithActions(actionList)
        keys == SelectSeq(order, LAMBDA s : s \in DOMAIN groupedByService)
    IN  [i \in 1..Len(keys) |->
            IAMStatement(groupedByService[keys[i]], getResourceARNForService(keys[i]))]

\* The statements of least-privilege mode: one per key of the grouping
\* map, appended in the order the map is ranged over, then sorted.
LeastPrivilegeStatements(actionList, order) ==
    LET groupedByService == groupActionsByServiceWithActions(actionList)
        keys == SelectSeq(order, LAMBDA s : s \in DOMAIN groupedByService)
    IN  SortStatements([i \in 1..Len(keys) |->
            IAMStatement(groupedByService[keys[i]], getResourceARNForService(keys[i]))])

\* The keys of the maps of both groupings: the services of the
\* identifiers that split in two.
GoodServices(actionList) ==
    LET parts == SplitActions(actionList)
    IN  {parts[i][1] : i \in {j \in 1..Len(parts) : Len(parts[j]) = 2}}

\* One statement per service whatever the mode.
BuildStatementsPerService(actionList, leastPrivilege, order) ==
    LET stmts == LeastPrivilegeStatements(actionList, order)
    IN  [list |-> stmts, isNil |-> stmts = <<>>]

\* The "statements" of generateIAMPolicy: [list, isNil].
BuildStatements(actionList, leastPrivilege, order) ==
    IF leastPrivilege
    THEN LET stmts == LeastPrivilegeStatements(actionList, order)
         IN  [list |-> stmts, isNil |-> stmts = <<>>]
    ELSE [list |-> <<IAMStatement(groupActionsByService(actionList, order), "*")>>,
          isNil |-> FALSE]

---------------------------------------------------------------------------
(* The Output Encoder.  encoding/json and yaml.v3 are libraries; their     *)
(* output is written out here for the IAMPolicy struct with its field      *)
(* tags.  A text is the sequence of its lines (the text split at "\n"):    *)
(* two texts are byte-identical exactly when their lines are the same.     *)

\* A Go string as encoding/json writes it: quoted, with '"', '\' and the
\* HTML characters escaped.
RECURSIVE JsonEscape(_)
JsonEscape(s) ==
    IF s = <<>> THEN ""
    ELSE (CASE s[1] = "\"" -> "\\\""
            [] s[1] = "\\" -> "\\\\"
            [] s[1] = "<" -> "\\u003c"
            [] s[1] = ">" -> "\\u003e"
            [] s[1] = "&" -> "\\u0026"
            [] s[1] = "\t" -> "\\t"
            [] OTHER -> s[1]) \o JsonEscape(Tail(s))

JsonString(s) == "\"" \o JsonEscape(s) \o "\""

\* A []string after a key: "[]" on the key's line when empty, else one
\* element per line between brackets; last says whether a comma follows.
JsonStringList(key, list, last) ==
    IF list = <<>>
    THEN <<"      " \o key \o ": []" \o (IF last THEN "" ELSE ",")>>
    ELSE <<"      " \o key \o ": [">>
         \o [i \in 1..Len(list) |->
               "        " \o JsonString(list[i]) \o (IF i < Len(list) THEN "," ELSE "")]
         \o <<"      ]" \o (IF last THEN "" ELSE ",")>>

JsonStatement(s, last) ==
    <<"    {",
      "      \"Effect\": \"" \o s.Effect \o "\",">>
    \o JsonStringList("\"Action\"", s.Action, FALSE)
    \o <<"      \"Resource\": \"" \o s.Resource \o "\"",
         "    }" \o (IF last THEN "" ELSE ",")>>

RECURSIVE JsonStatements(_)
JsonStatements(stmts) ==
    IF stmts = <<>> THEN <<>>
    ELSE JsonStatement(stmts[1], Len(stmts) = 1) \o JsonStatements(Tail(stmts))

\* json.MarshalIndent(policy, "", "  ")
EncodeJSON(version, statements) ==
    <<"{",
      "  \"Version\": \"" \o version \o "\",">>
    \o (IF statements.isNil THEN <<"  \"Statement\": null">>
        ELSE IF statements.list = <<>> THEN <<"  \"Statement\": []">>
        ELSE <<"  \"Statement\": [">> \o JsonStatements(statements.list) \o <<"  ]">>)
    \o <<"}">>

\* A string scalar as yaml.v3 writes it: plain when that reads back as the
\* same string, quoted otherwise.
YamlNeedsQuote(s) ==
    \/ s = <<>>
    \/ s[1] \in {"*", "&", "!", "|", ">", "'", "\"", "%", "@", "#",
                 ",", "[", "]", "{", "}", " "}
    \/ s[Len(s)] \in {":", " "}
    \/ Contains(s, <<":"," ">>)
    \/ Contains(s, <<" ","#">>)
    \/ (s[1] \in {"-", "?", ":"} /\ (Len(s) = 1 \/ s[2] = " "))

RECURSIVE YamlSingleQuoted(_)
YamlSingleQuoted(s) ==
    IF s = <<>> THEN ""
    ELSE (IF s[1] = "'" THEN "''" ELSE s[1]) \o YamlSingleQuoted(Tail(s))

YamlScalar(s) ==
    IF YamlNeedsQuote(s) THEN "'" \o YamlSingleQuoted(s) \o "'" ELSE Str(s)

\* The Resource of a statement is "*" or an ARN pattern of arnMap.
YamlResource(r) == IF r = "*" THEN "'*'" ELSE r

YamlStatement(s) ==
    <<"    - Effect: " \o s.Effect>>
    \o (IF s.Action = <<>> THEN <<"      Action: []">>
        ELSE <<"      Action:">>
             \o [i \in 1..Len(s.Action) |-> "        - " \o YamlScalar(s.Action[i])])
    \o <<"      Resource: " \o YamlResource(s.Resource)>>

RECURSIVE YamlStatements(_)
YamlStatements(stmts) ==
    IF stmts = <<>> THEN <<>>
    ELSE YamlStatement(stmts[1]) \o YamlStatements(Tail(stmts))

\* yaml.Marshal(&policy); the text ends with a newline.
EncodeYAML(version, statements) ==
    <<"Version: \"" \o version \o "\"">>
    \o (IF statements.list = <<>> THEN <<"Statement: []">>
        ELSE <<"Statement:">> \o YamlStatements(statements.list))
    \o <<"">>

\* The statement block of one statement: Action is a []string, Resource a
\* string; the actions attribute is written when the list is not empty.
TerraformStatement(s) ==
    <<"  statement {",
      "    effect = \"" \o s.Effect \o "\"">>
    \o (IF Len(s.Action) > 0
        THEN <<"    actions = [">>
             \o [i \in 1..Len(s.Action) |-> "      \"" \o Str(s.Action[i]) \o "\","]
             \o <<"    ]">>
        ELSE <<>>)
    \o <<"    resources = [\"" \o s.Resource \o "\"]",
         "  }">>

RECURSIVE TerraformStatements(_)
TerraformStatements(stmts) ==
    IF stmts = <<>> THEN <<>>
    ELSE TerraformStatement(stmts[1]) \o TerraformStatements(Tail(stmts))

\* generateTerraformOutput.  With no statement the first line is followed
\* by an empty line (the "\n}\n" after the loop).
generateTerraformOutput(stmts) ==
    <<"data \"aws_iam_policy_document\" \"generated\" {">>
    \o (IF stmts = <<>> THEN <<"">> ELSE TerraformStatements(stmts))
    \o <<"}",
         "",
         "resource \"aws_iam_policy\" \"generated\" {",
         "  name   = \"tf-iam-scanner-generated\"",
         "  policy = data.aws_iam_policy_document.generated.json",
         "}",
         "">>

\* A switch on format whose default case encodes as JSON.
EncodeDefaultJSON(format, version, statements) ==
    IF format = FormatYAML THEN <<EncodeYAML(version, statements), "">>
    ELSE IF format = FormatTerraform
    THEN <<generateTerraformOutput(statements.list), "">>
    ELSE <<EncodeJSON(version, statements), "">>

\* The switch on format: <<text, error>>.
Encode(format, version, statements) ==
    IF format = FormatJSON THEN <<EncodeJSON(version, statements), "">>
    ELSE IF format = FormatYAML THEN <<EncodeYAML(version, statements), "">>
    ELSE IF format = FormatTerraform
    THEN <<generateTerraformOutput(statements.list), "">>
    ELSE <<<<>>, "unsupported format: " \o format>>

PolicyVersion == "2012-10-17"

\* generateIAMPolicy with its maps ranged over in the given order: the
\* arguments, the working set, the statements, the text and the error.
generateIAMPolicy(res, includeStateBackend, format, leastPrivilege, order) ==
    LET actions == CollectActions(res, includeStateBackend)
        actionList == SortStrings(actions)
        statements == BuildStatements(actionList, leastPrivilege, order)
        out == Encode(format, PolicyVersion, statements)
    IN  [called |-> TRUE,
         includeStateBackend |-> includeStateBackend,
         format |-> format,
         leastPrivilege |-> leastPrivilege,
         work |-> actions,
         statements |-> statements,
         text |-> out[1],
         err |-> out[2]]

\* The orders in which the maps of a call can be ranged over.
MapOrders(res, includeStateBackend) ==
    Orders(GoodServices(SortStrings(CollectActions(res, includeStateBackend))))

---------------------------------------------------------------------------
(* The state machine.  A run is parseTerraformFiles on a directory (the    *)
(* knowledge base is loaded first when permissionsDB is nil; the walk      *)
(* calls its callback once per entry) followed by generateIAMPolicy on the *)
(* result, as runScanner does; the process may then run again, as the      *)
(* tests do, with permissionsDB kept.                                      *)

Dirs == Walks(MaxFiles)

\* What loadPermissionsDB can assign: a decoded map, or nil when the file
\* holds the JSON value null (json.Unmarshal then leaves the map nil).
LoadOutcomes == {LoadedDB(kb) : kb \in KBFiles} \cup {NilDB}

\* A load on every call, whether the map is nil or not.
EnsureLoadedAnew(db, loaded) == loaded

\* "if permissionsDB == nil { loadPermissionsDB() }" of parseTerraformFiles.
EnsureLoaded(db, loaded) == IF db.isNil THEN loaded ELSE db

NoStatements == [list |-> <<>>, isNil |-> TRUE]

\* No call of parseTerraformFiles is under way.
NoParse == [pc |-> "idle", todo |-> <<>>, result |-> NilResult, err |-> NoErr]

\* generateIAMPolicy has not been called on the result.
NoGen ==
    [called |-> FALSE, includeStateBackend |-> FALSE, format |-> "",
     leastPrivilege |-> FALSE, work |-> {}, statements |-> NoStatements,
     text |-> <<>>, err |-> ""]

\* What the walk has met so far: a state file whose text matches, a
\* configuration file with a backend block, the first after the second.
NoHist == [stateMatched |-> FALSE, blockSeen |-> FALSE, blockThenState |-> FALSE]

Init ==
    /\ permissionsDB = NilDB
    /\ parse = NoParse
    /\ gen = NoGen
    /\ hist = NoHist

\* parseTerraformFiles up to the walk: the knowledge base is loaded when
\* permissionsDB is nil, and the result starts empty.
ParseBegin ==
    /\ parse.pc = "idle"
    /\ \E dir \in Dirs, loaded \in LoadOutcomes :
          /\ permissionsDB' = EnsureLoaded(permissionsDB, loaded)
          /\ parse' = [pc |-> "walking", todo |-> dir, result |-> EmptyResult,
                       err |-> NoErr]
    /\ gen' = NoGen
    /\ hist' = NoHist

\* parseTerraformFiles when loadPermissionsDB fails: return nil, err.
ParseLoadFails ==
    /\ parse.pc = "idle"
    /\ permissionsDB.isNil
    /\ parse' = [pc |-> "failed", todo |-> <<>>, result |-> NilResult,
                 err |-> Err("load", <<"p","e","r","m","i","s","s","i","o","n","s",".","j","s","o","n">>, "read")]
    /\ gen' = NoGen
    /\ hist' = NoHist
    /\ UNCHANGED permissionsDB

\* Whether an entry is a state file whose text holds "s3" or "backend".
IsMatchingStateFile(entry) ==
    /\ IsStateFileName(entry.name)
    /\ ~entry.walkErr /\ ~entry.readErr
    /\ (Contains(entry.content, <<"s","3">>) \/ Contains(entry.content, <<"b","a","c","k","e","n","d">>))

\* Whether an entry is a configuration file that yields a backend.
HasBackendBlock(entry) ==
    /\ ~entry.walkErr
    /\ HasSuffix(entry.name, <<".","t","f">>)
    /\ parseTerraformFile(entry)[2] = NoErr
    /\ ~parseTerraformFile(entry)[1].Backend.isNil

\* The history after the callback ran on an entry.
Met(h, entry) ==
    [h EXCEPT !.stateMatched = @ \/ IsMatchingStateFile(entry),
              !.blockSeen = @ \/ HasBackendBlock(entry),
              !.blockThenState = @ \/ (h.blockSeen /\ IsMatchingStateFile(entry))]

\* The state of the walk after its callback returned <<result, err>>: a
\* non-nil error ends the walk, and parseTerraformFiles returns it.
AfterVisit(out, rest) ==
    IF out[2] = NoErr
    THEN [pc |-> "walking", todo |-> rest, result |-> out[1], err |-> NoErr]
    ELSE [pc |-> "failed", todo |-> <<>>, result |-> out[1], err |-> out[2]]

\* The walk callback on the next entry.
Visit ==
    /\ parse.pc = "walking"
    /\ parse.todo # <<>>
    /\ parse' = AfterVisit(WalkFn(Head(parse.todo), parse.result), Tail(parse.todo))
    /\ hist' = Met(hist, Head(parse.todo))
    /\ UNCHANGED <<permissionsDB, gen>>

\* The walk is over: return result, nil.
ParseEnd ==
    /\ parse.pc = "walking"
    /\ parse.todo = <<>>
    /\ parse' = [parse EXCEPT !.pc = "parsed"]
    /\ hist' = NoHist
    /\ UNCHANGED <<permissionsDB, gen>>

\* One call of generateIAMPolicy on the parsed result.
Call(includeStateBackend, format, leastPrivilege) ==
    \E order \in MapOrders(parse.result, includeStateBackend) :
        gen' = generateIAMPolicy(parse.result, includeStateBackend, format,
                                 leastPrivilege, order)

\* The first call of generateIAMPolicy on the result: runScanner's, or a
\* caller's with any OutputFormat value.
Generate ==
    /\ parse.pc = "parsed"
    /\ ~gen.called
    /\ \E includeStateBackend \in BOOLEAN, format \in Formats, leastPrivilege \in BOOLEAN :
          Call(includeStateBackend, format, leastPrivilege)
    /\ UNCHANGED <<permissionsDB, parse, hist>>

\* generateIAMPolicy called once more with the same arguments.
Regenerate ==
    /\ parse.pc = "parsed"
    /\ gen.called
    /\ Call(gen.includeStateBackend, gen.format, gen.leastPrivilege)
    /\ UNCHANGED <<permissionsDB, parse, hist>>

\* The run is over (runScanner returns, or exits on an error): its
\* locals are gone, permissionsDB stays for the next call in the process.
Finish ==
    /\ parse.pc \in {"parsed", "failed"}
    /\ parse' = NoParse
    /\ gen' = NoGen
    /\ hist' = NoHist
    /\ UNCHANGED permissionsDB

Next ==
    \/ ParseBegin
    \/ ParseLoadFails
    \/ Visit
    \/ ParseEnd
    \/ Generate
    \/ Regenerate
    \/ Finish

Spec == Init /\ [][Next]_vars

---------------------------------------------------------------------------
(* Properties.                                                             *)

\* The text before the first ':' of an identifier.
ServiceOf(action) == BeforeFirst(action, ":")

\* The actions of the working set that belong to a service.
ActionsOf(service) == {a \in gen.work : ServiceOf(a) = service}

\* Whether a list of strings is in strictly ascending byte order.
Ascending(list) == \A i \in 1..(Len(list) - 1) : StrLess(list[i], list[i + 1])

\* The Action list of the only statement of a call with least privilege off.
SingleActions == gen.statements.list[1].Action

\* C1: two calls of generateIAMPolicy with the same ParseResult, the same
\* knowledge base and the same flags return the same text, byte for byte.
C1_SameTextTwice ==
    [][(/\ gen.called /\ gen'.called
        /\ parse'.result = parse.result
        /\ permissionsDB' = permissionsDB
        /\ gen'.includeStateBackend = gen.includeStateBackend
        /\ gen'.format = gen.format
        /\ gen'.leastPrivilege = gen.leastPrivilege)
       => gen'.text = gen.text]_vars

\* C2: with least privilege off, the Action list of the single statement
\* is in strictly ascending order of the full identifiers, whatever the
\* resources and the order they are listed in.
C2_ActionsAscending ==
    (gen.called /\ ~gen.leastPrivilege) => Ascending(SingleActions)

\* C3: with least privilege off and every identifier of the form
\* service:Verb, a service's actions are replaced by the one entry
\* "service:*" exactly when the service has more than 5 actions in the
\* working set; otherwise each of its actions is an entry of the list.
C3_WildcardAboveFive ==
    (/\ gen.called /\ ~gen.leastPrivilege
     /\ \A a \in gen.work : Len(Split(a, ":")) = 2)
    => \A s \in {ServiceOf(a) : a \in gen.work} :
          LET star == s \o <<":", "*">>
              listed == {e \in Range(SingleActions) : ServiceOf(e) = s}
          IN  IF Cardinality(ActionsOf(s)) > 5
              THEN listed = {star}
              ELSE listed = ActionsOf(s)

\* A call where one service has exactly 6 actions and another exactly 5.
C3_SixAndFive ==
    /\ gen.called /\ ~gen.leastPrivilege
    /\ \A a \in gen.work : Len(Split(a, ":")) = 2
    /\ Cardinality(ActionsOf(<<"s", "3">>)) = 6
    /\ Cardinality(ActionsOf(<<"l", "a", "m", "b", "d", "a">>)) = 5
    /\ Len(SingleActions) = 6

\* The substrings an action of a data reference must hold one of.
C4_Marks ==
    {<<"D","e","s","c","r","i","b","e">>, <<"G","e","t">>, <<"L","i","s","t">>}

\* The knowledge-base actions of the data references, each type looked up
\* without a leading "data.".
C4_DataEntries ==
    UNION {Range(getRequiredPermissions(
                    TrimPrefix(parse.result.DataSources[i].Type,
                               <<"d","a","t","a",".">>))) :
             i \in 1..Len(parse.result.DataSources)}

\* C4: an action that is in the working set because of a data reference
\* only (no resource and no state backend brings it) holds "Describe",
\* "Get" or "List" and is an action of a data reference's type with a
\* leading "data." stripped; with no resources and no backend, the data
\* reference "data.aws_s3_bucket" with the knowledge-base actions
\* {s3:GetObject, s3:CreateBucket} gives a policy whose only action is
\* s3:GetObject.
C4_DataReadOnly ==
    gen.called =>
      /\ \A a \in gen.work :
            (/\ a \notin ResourceActions(parse.result)
             /\ ~(NeedsBackendActions(parse.result, gen.includeStateBackend)
                  /\ a \in Range(backendActions)))
            => /\ \E m \in C4_Marks : Contains(a, m)
               /\ a \in C4_DataEntries
      /\ (/\ permissionsDB = LoadedDB(KBAlt)
          /\ parse.result.Resources = <<>>
          /\ parse.result.Backend.isNil
          /\ ~gen.includeStateBackend
          /\ \E i \in 1..Len(parse.result.DataSources) :
                parse.result.DataSources[i].Type = data_aws_s3_bucket)
         => /\ gen.work = {s3_GetObject}
            /\ Len(gen.statements.list) = 1
            /\ gen.statements.list[1].Action = <<s3_GetObject>>

\* The policy of the data reference "data.aws_s3_bucket" alone.
C4_OnlyGetObject ==
    /\ gen.called
    /\ permissionsDB = LoadedDB(KBAlt)
    /\ parse.result.Resources = <<>>
    /\ parse.result.Backend.isNil
    /\ ~gen.includeStateBackend
    /\ \E i \in 1..Len(parse.result.DataSources) :
          parse.result.DataSources[i].Type = data_aws_s3_bucket
    /\ gen.work = {s3_GetObject}

\* C5: when the walked directory holds a state file whose text contains
\* "s3" or "backend", parseTerraformFiles returns the backend {"s3", no
\* settings}, whatever backends the configuration files declare and
\* wherever the state file comes in the walk.
C5_StateFileWins ==
    [][(/\ parse.pc = "walking" /\ parse'.pc = "parsed"
        /\ hist.stateMatched)
       => parse'.result.Backend = BackendConfig(<<"s", "3">>, <<>>)]_vars

\* A walk that met a configuration file with a backend block and then a
\* matching state file, every entry visited, about to return.
C5_BlockThenStateFile ==
    /\ parse.pc = "walking"
    /\ parse.todo = <<>>
    /\ hist.blockThenState
    /\ parse.result.Backend = BackendConfig(<<"s", "3">>, <<>>)


\* The services of the actions of the working set.
WorkServices == {ServiceOf(a) : a \in gen.work}

\* The knowledge-base actions of the declared resources, duplicates merged.
C6_ResourceEntries ==
    UNION {Range(getRequiredPermissions(parse.result.Resources[i].Type)) :
             i \in 1..Len(parse.result.Resources)}

\* C6: with least privilege off, generateIAMPolicy builds exactly one
\* statement, with Effect "Allow" and Resource "*"; when no service has
\* more than 5 actions, its Action list holds each action of the working
\* set once and nothing else, and, nothing but resources contributing, the
\* working set is the union of the knowledge-base lists of the resources.
C6_SingleStatement ==
    (gen.called /\ ~gen.leastPrivilege)
    => /\ Len(gen.statements.list) = 1
       /\ gen.statements.list[1].Effect = "Allow"
       /\ gen.statements.list[1].Resource = "*"
       /\ (\A s \in WorkServices : Cardinality(ActionsOf(s)) <= 5)
          => /\ Range(SingleActions) = gen.work
             /\ Len(SingleActions) = Cardinality(gen.work)
             /\ (/\ parse.result.DataSources = <<>>
                 /\ parse.result.Backend.isNil
                 /\ ~gen.includeStateBackend)
                => gen.work = C6_ResourceEntries

\* The example: 4 s3 actions and 5 lambda actions give 9 entries.
C6_NineEntries ==
    /\ gen.called /\ ~gen.leastPrivilege
    /\ parse.result.DataSources = <<>>
    /\ parse.result.Backend.isNil
    /\ ~gen.includeStateBackend
    /\ Cardinality(ActionsOf(<<"s", "3">>)) = 4
    /\ Cardinality(ActionsOf(<<"l", "a", "m", "b", "d", "a">>)) = 5
    /\ Len(SingleActions) = 9

\* C7: once permissionsDB is loaded, no step of parseTerraformFiles or
\* generateIAMPolicy changes it, and after the step getRequiredPermissions
\* still returns, for every type, the action list of the loaded entry, in
\* its order, when the type is a key, and the empty list when it is not.
C7_KnowledgeBaseKept ==
    [][~permissionsDB.isNil
       => /\ permissionsDB' = permissionsDB
          /\ \A t \in TypeUniverse :
                getRequiredPermissions(t)' =
                    IF t \in DOMAIN permissionsDB.entries
                    THEN permissionsDB.entries[t].Actions
                    ELSE <<>>]_vars

\* The knowledge base is loaded, a directory has been parsed and a policy
\* generated: a key is found with its list, another type is not found.
C7_AfterSynthesis ==
    /\ ~permissionsDB.isNil
    /\ parse.pc = "parsed"
    /\ gen.called
    /\ getRequiredPermissions(aws_s3_bucket) = permissionsDB.entries[aws_s3_bucket].Actions
    /\ getRequiredPermissions(aws_s3_bucket) # <<>>
    /\ getRequiredPermissions(google_storage_bucket) = <<>>

\* C8: when a declared resource brings at least one action into the
\* working set, the policy has at least one statement, with least
\* privilege on and off, whatever identifiers the knowledge base holds.
C8_NeverEmpty ==
    (gen.called /\ ResourceActions(parse.result) # {})
    => Len(gen.statements.list) >= 1

\* The eight state-backend actions.
C9_Eight ==
    {s3_GetObject, s3_PutObject, s3_ListBucket, s3_DeleteObject,
     dynamodb_GetItem, dynamodb_PutItem, dynamodb_DeleteItem, dynamodb_DescribeTable}

Least(list) ==
    CHOOSE x \in Range(list) : \A y \in Range(list) \ {x} : StrLess(x, y)

\* C10: with least privilege on, the policy has exactly one statement per
\* service (the text before ':') of the working set, holding the actions
\* of that service and no wildcard; its Resource is the service's pattern
\* of the table, or "*" when the table has none; the statements are in
\* ascending order of their smallest action.
C10_OnePerService ==
    (gen.called /\ gen.leastPrivilege)
    => LET stmts == gen.statements.list
       IN  /\ Len(stmts) = Cardinality(WorkServices)
           /\ \A s \in WorkServices : \E i \in 1..Len(stmts) :
                 /\ Range(stmts[i].Action) = ActionsOf(s)
                 /\ Len(stmts[i].Action) = Cardinality(ActionsOf(s))
                 /\ stmts[i].Resource = IF s \in DOMAIN arnMap THEN arnMap[s] ELSE "*"
           /\ \A i \in 1..(Len(stmts) - 1) :
                 StrLess(Least(stmts[i].Action), Least(stmts[i + 1].Action))

---------------------------------------------------------------------------
(* Properties of error handling, backend discovery and grouping             *)

\* The entry the walk visits next is a readable .tf file whose HCL parse
\* reports errors.
MalformedNext ==
    /\ parse.pc = "walking"
    /\ parse.todo # <<>>
    /\ ~Head(parse.todo).walkErr
    /\ HasSuffix(Head(parse.todo).name, <<".","t","f">>)
    /\ ~Head(parse.todo).readErr
    /\ ~Head(parse.todo).hclOK

\* The lines of a file that are no comment and, trimmed, start with prefix.
DeclLines(lines, prefix) ==
    SelectSeq(lines, LAMBDA l :
        /\ ~HasPrefix(TrimSpace(l), <<"#">>)
        /\ ~HasPrefix(TrimSpace(l), <<"/","/">>)
        /\ HasPrefix(TrimSpace(l), prefix))

\* The quote-stripped second word of every line of a list.
DeclTypes(lines) ==
    [i \in 1..Len(lines) |-> TrimQuotes(Fields(TrimSpace(lines[i]))[2])]

\* The types of a list of resources.
TypesOf(resources) == [i \in 1..Len(resources) |-> resources[i].Type]

\* C11: a .tf file with malformed syntax never makes parseTerraformFile
\* fail: the walk goes on, and the file contributes the scanner's output,
\* one resource for every non-comment line beginning with `resource "` and
\* one data reference for every non-comment line beginning with `data "`,
\* in line order.
C11_MalformedNeverFails ==
    [][MalformedNext =>
         LET entry == Head(parse.todo)
             out == parseTerraformFile(entry)
         IN  /\ out[2] = NoErr
             /\ parse'.pc = "walking"
             /\ parse'.err = NoErr
             /\ TypesOf(out[1].Resources) =
                    DeclTypes(DeclLines(entry.lines, <<"r","e","s","o","u","r","c","e"," ","\"">>))
             /\ TypesOf(out[1].DataSources) =
                    DeclTypes(DeclLines(entry.lines, <<"d","a","t","a"," ","\"">>))
             /\ parse'.result.Resources = parse.result.Resources \o out[1].Resources
             /\ parse'.result.DataSources =
                    parse.result.DataSources \o out[1].DataSources]_vars

\* The walk has gone past broken.tf, whose comment line declares no
\* resource: two resources and one data reference came out of it.
C11_BrokenScanned ==
    /\ parse.pc = "walking"
    /\ parse.err = NoErr
    /\ TypesOf(parse.result.Resources) = <<aws_lambda_function, google_storage_bucket>>
    /\ TypesOf(parse.result.DataSources) = <<aws_region>>
    /\ parse.result.Resources[1].Name = <<"o">>

\* C12: generateIAMPolicy returns the error "unsupported format" and empty
\* text exactly when the format is none of json, yaml and terraform; for
\* these three it returns text and no error for every ParseResult, the
\* empty one included.
C12_UnsupportedFormatOnly ==
    gen.called
    => IF gen.format \in {FormatJSON, FormatYAML, FormatTerraform}
       THEN gen.err = "" /\ gen.text # <<>>
       ELSE gen.err = "unsupported format: " \o gen.format /\ gen.text = <<>>

\* A call with another format on a ParseResult that holds nothing.
C12_OtherFormatOnEmpty ==
    /\ gen.called
    /\ gen.format = FormatOther
    /\ parse.result = EmptyResult
    /\ gen.err # ""
    /\ gen.text = <<>>

\* The first backend block of a list of top-level blocks, in document
\* order, or nil.
RECURSIVE FirstBackendOfBlocks(_)
FirstBackendOfBlocks(blocks) ==
    IF blocks = <<>> THEN NilBackend
    ELSE IF blocks[1].Type = "terraform" /\ ~BackendFromBlocks(blocks[1].Blocks).isNil
         THEN BackendFromBlocks(blocks[1].Blocks)
         ELSE FirstBackendOfBlocks(Tail(blocks))

\* The first backend the line scanner comes upon in a list of lines, or nil.
FirstBackendOfLines(lines) ==
    LET found == {i \in 1..Len(lines) :
                     ~extractWithSimpleParsing(SubSeq(lines, 1, i)).Backend.isNil}
    IN  IF found = {} THEN NilBackend
        ELSE extractWithSimpleParsing(
                 SubSeq(lines, 1, CHOOSE i \in found : \A j \in found : i <= j)).Backend

\* The first backend block of a walked entry in document order, or nil.
FirstBackendOf(entry) ==
    IF entry.walkErr \/ ~HasSuffix(entry.name, <<".","t","f">>) \/ entry.readErr THEN NilBackend
    ELSE IF entry.hclOK THEN FirstBackendOfBlocks(entry.blocks)
    ELSE FirstBackendOfLines(entry.lines)

\* C13: while no state file has been matched, the backend of the
\* ParseResult is the first backend block discovered, the first across
\* files in walk order and the first within a file in document order: a
\* visit leaves a backend that is set as it is, and sets an unset one to
\* the first backend block of the visited file.
C13_FirstBackendKept ==
    [][(parse.pc = "walking" /\ parse.todo # <<>> /\ parse'.pc = "walking"
          /\ ~hist'.stateMatched)
       => parse'.result.Backend =
             IF ~parse.result.Backend.isNil THEN parse.result.Backend
             ELSE FirstBackendOf(Head(parse.todo))]_vars

\* How often an action is listed in a list of actions.
Occurrences(list, a) == Cardinality({k \in 1..Len(list) : list[k] = a})

\* C14: with least privilege on, the Action lists of the statements
\* partition the working set: every action of the working set is listed
\* exactly once, in exactly one statement, and no statement lists an action
\* that is not in the working set.
C14_StatementsPartition ==
    (gen.called /\ gen.leastPrivilege)
    => LET stmts == gen.statements.list
       IN  /\ \A a \in gen.work :
                 \E i \in 1..Len(stmts) :
                    /\ Occurrences(stmts[i].Action, a) = 1
                    /\ \A j \in 1..Len(stmts) :
                          j # i => Occurrences(stmts[j].Action, a) = 0
           /\ \A i \in 1..Len(stmts) : Range(stmts[i].Action) \subseteq gen.work

\* The identifiers of the working set of the form service:Verb.
WellFormedWork == {a \in gen.work : Len(Split(a, ":")) = 2}

\* C15: with least privilege off, when an identifier of the working set
\* does not split on ':' into exactly two parts, no service is collapsed to
\* a wildcard and the Action list of the statement is the sorted working
\* list as it is, even when a service has more than 5 well-formed actions.
C15_MalformedKeepsList ==
    (gen.called /\ ~gen.leastPrivilege /\ WellFormedWork # gen.work)
    => /\ Len(gen.statements.list) = 1
       /\ Range(SingleActions) = gen.work
       /\ Len(SingleActions) = Cardinality(gen.work)
       /\ Ascending(SingleActions)

\* A working set with an identifier that does not split in two and a
\* service of more than 5 well-formed actions, all of them listed.
C15_SixWithMalformed ==
    /\ gen.called
    /\ ~gen.leastPrivilege
    /\ WellFormedWork # gen.work
    /\ \E a \in WellFormedWork :
          /\ Cardinality({b \in WellFormedWork : ServiceOf(b) = ServiceOf(a)})
                > WildcardThreshold
          /\ a \in Range(SingleActions)

---------------------------------------------------------------------------
(* Properties of the line scanner, read errors, encoding and providers      *)

\* Whether line i of a list is no comment.
Scanned(lines, i) ==
    /\ ~HasPrefix(TrimSpace(lines[i]), <<"#">>)
    /\ ~HasPrefix(TrimSpace(lines[i]), <<"/","/">>)

\* Whether line i is a scanned line that starts with prefix.
StartsWith(lines, i, prefix) ==
    Scanned(lines, i) /\ HasPrefix(TrimSpace(lines[i]), prefix)

\* Whether line i is a `backend "<type>"` line.
IsBackendLine(lines, i) == StartsWith(lines, i, <<"b","a","c","k","e","n","d"," ","\"">>)

\* Whether line i consists solely of a closing brace.
IsClosingBrace(lines, i) == TrimSpace(lines[i]) = <<"}">>

\* Detection armed at line i by an earlier terraform line with no closing
\* brace line in between.
ArmedUntilBrace(lines, i) ==
    \E j \in 1..(i - 1) :
        /\ StartsWith(lines, j, <<"t","e","r","r","a","f","o","r","m">>)
        /\ \A k \in (j + 1)..(i - 1) : ~IsClosingBrace(lines, k)

\* Detection armed at line i by an earlier terraform line with no closing
\* brace line and no resource or data line in between.
ArmedUntilBlock(lines, i) ==
    \E j \in 1..(i - 1) :
        /\ StartsWith(lines, j, <<"t","e","r","r","a","f","o","r","m">>)
        /\ \A k \in (j + 1)..(i - 1) :
              /\ ~IsClosingBrace(lines, k)
              /\ ~StartsWith(lines, k, <<"r","e","s","o","u","r","c","e"," ","\"">>)
              /\ ~StartsWith(lines, k, <<"d","a","t","a"," ","\"">>)

\* The backend the scanner holds after the first i lines.
BackendAfter(lines, i) == extractWithSimpleParsing(SubSeq(lines, 1, i)).Backend

\* The backend a backend line names: the quote-stripped type, no settings.
BackendNamed(line) == BackendConfig(TrimQuotes(Fields(TrimSpace(line))[2]), <<>>)

\* C16: in the line scanner a `backend "<type>"` line sets the backend
\* (kind the quote-stripped type, empty settings) exactly when detection is
\* armed at that line: armed by an earlier line that starts with the
\* terraform keyword, disarmed only by a later line that consists solely
\* of a closing brace.
C16_ArmedUntilBrace ==
    MalformedNext
    => LET lines == Head(parse.todo).lines
       IN  \A i \in 1..Len(lines) :
              IsBackendLine(lines, i)
              => BackendAfter(lines, i) =
                    IF ArmedUntilBrace(lines, i) THEN BackendNamed(lines[i])
                    ELSE BackendAfter(lines, i - 1)

\* C16, amended: a `backend "<type>"` line sets the backend exactly when
\* detection is armed at that line: armed by an earlier line that starts
\* with the terraform keyword, disarmed by a later line that consists
\* solely of a closing brace or that starts with `resource "` or `data "`;
\* the file's backend is the one of its last armed backend line.
C16_ArmedUntilBlock ==
    [][MalformedNext
       => LET lines == Head(parse.todo).lines
              armed == {i \in 1..Len(lines) :
                           IsBackendLine(lines, i) /\ ArmedUntilBlock(lines, i)}
              last == CHOOSE i \in armed : \A j \in armed : j <= i
          IN  /\ \A i \in 1..Len(lines) :
                    IsBackendLine(lines, i)
                    => BackendAfter(lines, i) =
                          IF i \in armed THEN BackendNamed(lines[i])
                          ELSE BackendAfter(lines, i - 1)
              /\ parse.result.Backend.isNil
                 => parse'.result.Backend =
                       IF armed = {} THEN NilBackend ELSE BackendNamed(lines[last])]_vars

\* The walk has gone past broken.tf: the backend is the one of the armed
\* line, not the one named after the closing brace nor the one named in
\* the resource block.
C16_ArmedLineOnly ==
    /\ parse.pc = "walking"
    /\ parse.result.Backend = BackendConfig(<<"g","c","s">>, <<>>)
    /\ \E i \in 1..Len(parse.result.Resources) : parse.result.Resources[i].Name = <<"o">>
    /\ \E i \in 1..Len(parse.result.DataSources) :
          parse.result.DataSources[i].Type = aws_region

\* The entry the walk visits next is a file the extractor reads, a .tf file
\* or a state file, and reading it fails.
UnreadableNext ==
    /\ parse.pc = "walking"
    /\ parse.todo # <<>>
    /\ ~Head(parse.todo).walkErr
    /\ Head(parse.todo).readErr
    /\ \/ HasSuffix(Head(parse.todo).name, <<".","t","f">>)
       \/ IsStateFileName(Head(parse.todo).name)

\* C17: a read error on a file the extractor reads during the walk, a .tf
\* file or a state file, ends parseTerraformFiles with an error that wraps
\* the cause and names the path; no later entry is visited.
C17_ReadErrorAborts ==
    [][UnreadableNext
       => /\ parse'.pc = "failed"
          /\ parse'.err.path = Head(parse.todo).name
          /\ parse'.err.cause = "read"
          /\ parse'.todo = <<>>]_vars

\* The lines of a text at which a statement block opens.
BlockOpenings(text) == {i \in 1..Len(text) : text[i] = "  statement {"}

\* The lines of the statement block that opens at line i: up to the first
\* line that closes it.
BlockLines(text, i) ==
    LET closes == {j \in (i + 1)..Len(text) : text[j] = "  }"}
        close == IF closes = {} THEN Len(text)
                 ELSE CHOOSE j \in closes : \A k \in closes : j <= k
    IN  {text[j] : j \in i..close}

\* C18: in the terraform encoding every statement of the policy is
\* rendered as a nested statement block that holds the three attributes
\* effect, actions (a list literal) and resources (a list literal).
C18_ThreeAttributes ==
    (gen.called /\ gen.format = FormatTerraform)
    => /\ Cardinality(BlockOpenings(gen.text)) = Len(gen.statements.list)
       /\ \A i \in BlockOpenings(gen.text) :
             /\ "    effect = \"Allow\"" \in BlockLines(gen.text, i)
             /\ "    actions = [" \in BlockLines(gen.text, i)
             /\ \E k \in 1..Len(gen.statements.list) :
                   ("    resources = [\"" \o gen.statements.list[k].Resource \o "\"]")
                      \in BlockLines(gen.text, i)

\* The provider prefix of a type: the text before the first '_', and
\* "aws" when the type holds no '_'.
PrefixOfType(type) ==
    IF Len(Split(type, "_")) = 1 THEN <<"a","w","s">> ELSE Split(type, "_")[1]

\* C19: every resource and every data reference that extraction produces,
\* from a resource block, from a data block or from the line scanner, has
\* the provider "aws" when its type starts with "aws_", otherwise the text
\* of its type before the first '_', and "aws" when the type holds no '_'.
C19_ProviderFromType ==
    \A r \in Range(parse.result.Resources) \cup Range(parse.result.DataSources) :
        r.Provider = PrefixOfType(r.Type)

\* The wildcard entry of a service.
WildcardOf(service) == service \o <<":","*">>

\* C20: with least privilege off and every identifier of the form
\* service:Verb, the Action list of the statement has no duplicate entry,
\* grants every action of the working set (listed itself or covered by the
\* wildcard of its service), and lists nothing but actions of the working
\* set and wildcards of services with more than 5 actions in it.
C20_GrantsWorkingSet ==
    (gen.called /\ ~gen.leastPrivilege /\ WellFormedWork = gen.work)
    => /\ Len(gen.statements.list) = 1
       /\ \A i, j \in 1..Len(SingleActions) :
             i # j => SingleActions[i] # SingleActions[j]
       /\ \A a \in gen.work :
             a \in Range(SingleActions)
             \/ WildcardOf(ServiceOf(a)) \in Range(SingleActions)
       /\ \A e \in Range(SingleActions) :
             \/ e \in gen.work
             \/ \E s \in WorkServices :
                   /\ e = WildcardOf(s)
                   /\ Cardinality(ActionsOf(s)) > WildcardThreshold

\* A call whose list covers one action by the wildcard of its service only
\* and lists another action itself.
C20_CoveredAndListed ==
    /\ gen.called /\ ~gen.leastPrivilege
    /\ WellFormedWork = gen.work
    /\ \E a, b \in gen.work :
          /\ a \notin Range(SingleActions)
          /\ WildcardOf(ServiceOf(a)) \in Range(SingleActions)
          /\ b \in Range(SingleActions)

---------------------------------------------------------------------------
(* Properties of the order of the statements                               *)

\* The services of the identifiers of a working set that split in two.
GroupedServices(work) ==
    {ServiceOf(a) : a \in {b \in work : Len(Split(b, ":")) = 2}}

\* The identifiers of a working set that a service is grouped with.
GroupOf(work, service) ==
    {a \in work : Len(Split(a, ":")) = 2 /\ Split(a, ":")[1] = service}

\* Whether a list of statements is the one the working set alone fixes:
\* one statement per grouped service, with the service's pattern, its
\* actions in ascending order, the statements in ascending order of their
\* first action.
FixedByWork(stmts, work) ==
    /\ Len(stmts) = Cardinality(GroupedServices(work))
    /\ \A s \in GroupedServices(work) : \E i \in 1..Len(stmts) :
          /\ Range(stmts[i].Action) = GroupOf(work, s)
          /\ stmts[i].Resource = IF s \in DOMAIN arnMap THEN arnMap[s] ELSE "*"
    /\ \A i \in 1..Len(stmts) : Ascending(stmts[i].Action)
    /\ \A i \in 1..(Len(stmts) - 1) :
          StrLess(stmts[i].Action[1], stmts[i + 1].Action[1])

\* C21: with least privilege on, the statements (their order, the Resource
\* of each and the order of the actions inside each) depend on the set of
\* actions of the working set only, not on the order of the resources nor
\* on the order the grouping map is ranged over: a call returns the list
\* the working set fixes, a further call with the same working set returns
\* the same list, and the actions of each statement are in ascending order.
C21_StatementsFromWorkOnly ==
    [][(gen'.called /\ gen'.leastPrivilege)
       => /\ FixedByWork(gen'.statements.list, gen'.work)
          /\ (gen.called /\ gen.leastPrivilege /\ gen.work = gen'.work)
             => gen'.statements = gen.statements]_vars

\* A call with least privilege on whose grouping map has three keys, which
\* can be ranged over in six orders.
C21_ThreeServices ==
    /\ gen.called
    /\ gen.leastPrivilege
    /\ Cardinality(GroupedServices(gen.work)) = 3
    /\ Len(gen.statements.list) = 3
    /\ \E i \in 1..3 : Len(gen.statements.list[i].Action) > 1

=============================================================================
